---- MODULE Spec2Model ----
(***************************************************************************)
(* Model of `podman search` (cmd/podman/search.go): searchCmd parses the   *)
(* filter expressions, getSearchOutput queries every registry in order,    *)
(* caps, filters and projects each registry's raw results, and             *)
(* generateSearchOutput renders the collected records.                     *)
(*                                                                         *)
(* A Go string is a sequence of tokens.  A token is a single character     *)
(* ("=", ".", "/", "-", "+", a digit) or a word holding none of those      *)
(* separators ("stars", "docker", "false"), so strings.Split,              *)
(* strings.Join, strings.Contains and strconv.Atoi act on tokens exactly   *)
(* as they act on the characters.  The Description column is left out: it  *)
(* is copied from the raw result and nothing else reads it.                *)
(***************************************************************************)
EXTENDS Integers, Sequences, FiniteSets, TLC

VARIABLES
    pc,          \* position in searchCmd: "start", "parse", "search", "done"
    nargs,       \* len(c.InputArgs)
    resolve,     \* outcome of sysreg.GetRegistry / sysreg.GetRegistries
    optsFilter,  \* opts.filter: the filter expressions, in input order
    optsLimit,   \* opts.limit
    registries,  \* the registry hosts returned by getRegistries
    response,    \* per registry: what docker.SearchRegistry answers for it
    filter,      \* <<>> until parseSearchFilter returned a *searchFilterParams
    err,         \* the error searchCmd returns ("" is nil)
    reg,         \* position of the range loop over registries
    queried,     \* the calls made to docker.SearchRegistry, in order
    paramsArr,   \* the records collected by getSearchOutput
    emitted,     \* for each record of paramsArr: the registry and raw result it was built from
    rendered     \* whether formats.Writer(out).Out() was called

vars == <<pc, nargs, resolve, optsFilter, optsLimit, registries, response,
          filter, err, reg, queried, paramsArr, emitted, rendered>>

maxQueries == 25

(* Bounds of the explored inputs. *)
MaxFilters == 2
MaxRegistries == 2
MaxResults == 27
MaxLimit == 26
SmallCount == 4

SeqsUpTo(S, k) == UNION {[1..m -> S] : m \in 0..k}

(***************************************************************************)
(* Strings                                                                 *)
(***************************************************************************)
RECURSIVE Split(_, _)
Split(s, sep) ==
    IF \A k \in 1..Len(s) : s[k] # sep
    THEN <<s>>
    ELSE LET p == CHOOSE k \in 1..Len(s) :
                      s[k] = sep /\ \A j \in 1..(k - 1) : s[j] # sep
         IN  <<SubSeq(s, 1, p - 1)>> \o Split(SubSeq(s, p + 1, Len(s)), sep)

RECURSIVE Join(_, _)
Join(arr, sep) ==
    IF arr = <<>> THEN <<>>
    ELSE IF Len(arr) = 1 THEN arr[1]
    ELSE arr[1] \o <<sep>> \o Join(Tail(arr), sep)

Contains(s, c) == \E k \in 1..Len(s) : s[k] = c

IsDigit(c) == \E d \in 0..9 : ToString(d) = c

DigitVal(c) == CHOOSE d \in 0..9 : ToString(d) = c

RECURSIVE Decimal(_, _)
Decimal(s, acc) ==
    IF s = <<>> THEN acc ELSE Decimal(Tail(s), 10 * acc + DigitVal(s[1]))

Atoi(s) ==
    LET signed == s # <<>> /\ s[1] \in {"+", "-"}
        body   == IF signed THEN Tail(s) ELSE s
        ok     == body # <<>> /\ \A k \in 1..Len(body) : IsDigit(body[k])
    IN  IF ~ok THEN [ok |-> FALSE, val |-> 0]
        ELSE [ok  |-> TRUE,
              val |-> IF signed /\ s[1] = "-" THEN 0 - Decimal(body, 0)
                      ELSE Decimal(body, 0)]

(***************************************************************************)
(* parseSearchFilter                                                       *)
(***************************************************************************)
EmptyFilterParams == [stars |-> 0, isAutomated |-> {}, isOfficial |-> {}]

RECURSIVE parseSearchFilter(_, _, _)
parseSearchFilter(fs, k, filterParams) ==
    IF k > Len(fs) THEN [err |-> "", params |-> <<filterParams>>]
    ELSE
      LET arr == Split(fs[k], "=") IN
      CASE arr[1] = <<"stars">> ->
             IF Len(arr) < 2
             THEN [err |-> "invalid stars filter", params |-> <<>>]
             ELSE LET stars == Atoi(arr[2]) IN
                  IF ~stars.ok
                  THEN [err |-> "incorrect value type for stars filter", params |-> <<>>]
                  ELSE parseSearchFilter(fs, k + 1,
                           [filterParams EXCEPT !.stars = stars.val])
        [] arr[1] = <<"is-automated">> ->
             IF Len(arr) = 2 /\ arr[2] = <<"false">>
             THEN parseSearchFilter(fs, k + 1,
                      [filterParams EXCEPT !.isAutomated = {FALSE}])
             ELSE parseSearchFilter(fs, k + 1,
                      [filterParams EXCEPT !.isAutomated = {TRUE}])
        [] arr[1] = <<"is-official">> ->
             IF Len(arr) = 2 /\ arr[2] = <<"false">>
             THEN parseSearchFilter(fs, k + 1,
                      [filterParams EXCEPT !.isOfficial = {FALSE}])
             ELSE parseSearchFilter(fs, k + 1,
                      [filterParams EXCEPT !.isOfficial = {TRUE}])
        [] OTHER -> [err |-> "invalid filter type", params |-> <<>>]

(***************************************************************************)
(* Filter predicates                                                       *)
(***************************************************************************)
matchesStarFilterStrict(f, result) == result.StarCount > f.stars

matchesStarFilter(f, result) == result.StarCount >= f.stars

matchesAutomatedFilter(f, result) ==
    IF f.isAutomated # {}
    THEN \A b \in f.isAutomated : result.IsAutomated = b
    ELSE TRUE

matchesOfficialFilterUnset(f, result) == TRUE

matchesOfficialFilter(f, result) ==
    IF f.isOfficial # {}
    THEN \A b \in f.isOfficial : result.IsOfficial = b
    ELSE TRUE

(***************************************************************************)
(* getSearchOutput                                                         *)
(***************************************************************************)
QueryLimit(limitOpt) == IF limitOpt # 0 THEN limitOpt ELSE maxQueries

IndexOf(host) ==
    LET arr == Split(host, ".") IN
    IF Len(arr) > 2 THEN Join(SubSeq(arr, Len(arr) - 1, Len(arr)), ".")
    ELSE host

ResultLimitDefaultOnly(limitOpt, n) ==
    IF n < maxQueries THEN n ELSE maxQueries

ResultLimitNoDefault(limitOpt, n) ==
    IF limitOpt # 0 /\ limitOpt < n THEN limitOpt ELSE n

ResultLimit(limitOpt, n) ==
    LET byCount == IF n < maxQueries THEN n ELSE maxQueries IN
    IF limitOpt # 0 /\ limitOpt < n THEN limitOpt ELSE byCount

QualifiedNameAlwaysLibrary(host, index, name) ==
    IF index = <<"docker", ".", "io">>
    THEN index \o <<"/", "library", "/">> \o name
    ELSE host \o <<"/">> \o name

QualifiedName(host, index, name) ==
    IF index = <<"docker", ".", "io">> /\ ~Contains(name, "/")
    THEN index \o <<"/", "library", "/">> \o name
    ELSE host \o <<"/">> \o name

Project(host, index, result) ==
    [Index     |-> index,
     Name      |-> QualifiedName(host, index, result.Name),
     Official  |-> IF result.IsOfficial THEN "[OK]" ELSE "",
     Automated |-> IF result.IsAutomated THEN "[OK]" ELSE "",
     Stars     |-> result.StarCount]

RECURSIVE ResultLoopReversed(_, _, _, _, _)
ResultLoopReversed(fs, f, results, limit, i) ==
    IF i > limit THEN <<>>
    ELSE IF Len(fs) > 0
            /\ ~(matchesAutomatedFilter(f, results[i])
                 /\ matchesOfficialFilter(f, results[i])
                 /\ matchesStarFilter(f, results[i]))
         THEN ResultLoopReversed(fs, f, results, limit, i + 1)
         ELSE ResultLoopReversed(fs, f, results, limit, i + 1) \o <<i>>

(* The inner loop: the positions 1..limit of the results that are kept. *)
RECURSIVE ResultLoop(_, _, _, _, _)
ResultLoop(fs, f, results, limit, i) ==
    IF i > limit THEN <<>>
    ELSE IF Len(fs) > 0
            /\ ~(matchesAutomatedFilter(f, results[i])
                 /\ matchesOfficialFilter(f, results[i])
                 /\ matchesStarFilter(f, results[i]))
         THEN ResultLoop(fs, f, results, limit, i + 1)
         ELSE <<i>> \o ResultLoop(fs, f, results, limit, i + 1)

(***************************************************************************)
(* The registries and what they answer                                     *)
(***************************************************************************)
Hosts ==
    << <<"docker", ".", "io">>,
       <<"registry", ".", "fedoraproject", ".", "org">>,
       <<"registry", ".", "docker", ".", "io">>,
       <<"localhost">>,
       <<"quay", ".", "io">>,
       <<"a", ".", "b", ".", "c", ".", "d">> >>

HostSet == {Hosts[h] : h \in 1..Len(Hosts)}

HostIdx(host) == CHOOSE h \in 1..Len(Hosts) : Hosts[h] = host

(* The i-th raw result of the catalogue of a host. *)
SearchResult(host, i) ==
    [Name        |-> IF i % 3 = 0 THEN <<"ns", "/", "img", ToString(i)>>
                     ELSE <<"img", ToString(i)>>,
     StarCount   |-> (i + 2 + HostIdx(host)) % 7,
     IsOfficial  |-> i % 2 = 1,
     IsAutomated |-> (i \div 2) % 2 = 1]

(* docker.SearchRegistry on success: the first n results of the catalogue. *)
Results(r) == [i \in 1..response[r].n |-> SearchResult(registries[r], i)]

ResultCounts == {0, SmallCount} \cup ((maxQueries - 1)..MaxResults)

Limits == ((-1)..SmallCount) \cup ((maxQueries - 1)..MaxLimit)

FilterExprs ==
    { <<"stars", "=", "5">>, <<"stars", "=", "1", "0">>, <<"stars">>,
      <<"stars", "=">>, <<"stars", "=", "x">>, <<"stars", "=", "5", "=", "3">>,
      <<"stars", "=", "-", "1">>, <<"stars", "=", "+", "2">>,
      <<"is-official">>, <<"is-official", "=", "false">>,
      <<"is-official", "=">>, <<"is-official", "=", "false", "=", "x">>,
      <<"is-automated">>, <<"is-automated", "=", "false">>,
      <<"is-automated", "=", "true">>,
      <<"bogus">>, <<"bogus", "=", "1">>, <<>> }

(***************************************************************************)
(* Initial states                                                          *)
(***************************************************************************)
InitControl ==
    /\ pc = "start"
    /\ filter = <<>>
    /\ err = ""
    /\ reg = 1
    /\ queried = <<>>
    /\ paramsArr = <<>>
    /\ emitted = <<>>
    /\ rendered = FALSE

(* Filter expressions of every shape against a short answer. *)
InitFilters ==
    /\ nargs = 1
    /\ resolve = "ok"
    /\ optsFilter \in SeqsUpTo(FilterExprs, MaxFilters)
    /\ optsLimit \in {0, 2}
    /\ registries = <<Hosts[1]>>
    /\ response = <<[ok |-> TRUE, n |-> SmallCount]>>

(* Caller limits and result counts around 0 and around maxQueries. *)
InitLimits ==
    /\ nargs = 1
    /\ resolve = "ok"
    /\ optsFilter = <<>>
    /\ optsLimit \in Limits
    /\ \E k \in 0..MaxRegistries : registries = [r \in 1..k |-> Hosts[r]]
    /\ response \in [1..Len(registries) -> [ok : {TRUE}, n : ResultCounts]]

(* Every list of hosts, each registry failing or answering. *)
InitHosts ==
    /\ nargs = 1
    /\ resolve = "ok"
    /\ optsFilter \in {<<>>, << <<"is-official">> >>}
    /\ optsLimit = 0
    /\ registries \in SeqsUpTo(HostSet, MaxRegistries)
    /\ response \in [1..Len(registries) -> [ok : BOOLEAN, n : {SmallCount}]]

(* Wrong argument counts and failures to resolve the registries. *)
InitUsage ==
    /\ nargs \in 0..2
    /\ resolve \in {"ok", "GetRegistry", "GetRegistries"}
    /\ optsFilter \in {<<>>, << <<"bogus">> >>}
    /\ optsLimit = 0
    /\ registries = <<Hosts[1]>>
    /\ response \in [1..1 -> [ok : BOOLEAN, n : {SmallCount}]]

Init ==
    /\ InitControl
    /\ \/ InitFilters
       \/ InitLimits
       \/ InitHosts
       \/ InitUsage

(***************************************************************************)
(* Actions                                                                 *)
(***************************************************************************)
(* searchCmd up to getRegistries. *)
Start ==
    /\ pc = "start"
    /\ IF nargs > 1 THEN err' = "too many arguments" /\ pc' = "done"
       ELSE IF nargs = 0 THEN err' = "no argument given" /\ pc' = "done"
       ELSE IF resolve = "GetRegistry"
            THEN err' = "error getting registry" /\ pc' = "done"
       ELSE IF resolve = "GetRegistries"
            THEN err' = "error getting registries to search" /\ pc' = "done"
       ELSE err' = err /\ pc' = "parse"
    /\ UNCHANGED <<nargs, resolve, optsFilter, optsLimit, registries, response,
                   filter, reg, queried, paramsArr, emitted, rendered>>

ParseFilterIgnoresError ==
    /\ pc = "parse"
    /\ LET parsed == parseSearchFilter(optsFilter, 1, EmptyFilterParams) IN
       /\ err' = err
       /\ filter' = IF parsed.err # "" THEN <<EmptyFilterParams>>
                    ELSE parsed.params
       /\ pc' = "search"
    /\ UNCHANGED <<nargs, resolve, optsFilter, optsLimit, registries, response,
                   reg, queried, paramsArr, emitted, rendered>>

(* searchCmd: filter, err := parseSearchFilter(&opts). *)
ParseFilter ==
    /\ pc = "parse"
    /\ LET parsed == parseSearchFilter(optsFilter, 1, EmptyFilterParams) IN
       IF parsed.err # ""
       THEN /\ err' = parsed.err
            /\ filter' = <<>>
            /\ pc' = "done"
       ELSE /\ err' = err
            /\ filter' = parsed.params
            /\ pc' = "search"
    /\ UNCHANGED <<nargs, resolve, optsFilter, optsLimit, registries, response,
                   reg, queried, paramsArr, emitted, rendered>>

RegistryFailsAborts ==
    /\ pc = "search"
    /\ reg <= Len(registries)
    /\ ~response[reg].ok
    /\ queried' = Append(queried, [host  |-> registries[reg],
                                   limit |-> QueryLimit(optsLimit)])
    /\ reg' = Len(registries) + 1
    /\ UNCHANGED <<pc, nargs, resolve, optsFilter, optsLimit, registries,
                   response, filter, err, paramsArr, emitted, rendered>>

(* One iteration of the registry loop whose query fails. *)
RegistryFails ==
    /\ pc = "search"
    /\ reg <= Len(registries)
    /\ ~response[reg].ok
    /\ queried' = Append(queried, [host  |-> registries[reg],
                                   limit |-> QueryLimit(optsLimit)])
    /\ reg' = reg + 1
    /\ UNCHANGED <<pc, nargs, resolve, optsFilter, optsLimit, registries,
                   response, filter, err, paramsArr, emitted, rendered>>

(* One iteration of the registry loop whose query succeeds. *)
RegistryAnswers ==
    /\ pc = "search"
    /\ reg <= Len(registries)
    /\ response[reg].ok
    /\ LET host    == registries[reg]
           results == Results(reg)
           index   == IndexOf(host)
           limit   == ResultLimit(optsLimit, Len(results))
           kept    == ResultLoop(optsFilter, filter[1], results, limit, 1)
       IN  /\ paramsArr' = paramsArr \o
                 [k \in 1..Len(kept) |-> Project(host, index, results[kept[k]])]
           /\ emitted' = emitted \o
                 [k \in 1..Len(kept) |-> [reg |-> reg, i |-> kept[k]]]
    /\ queried' = Append(queried, [host  |-> registries[reg],
                                   limit |-> QueryLimit(optsLimit)])
    /\ reg' = reg + 1
    /\ UNCHANGED <<pc, nargs, resolve, optsFilter, optsLimit, registries,
                   response, filter, err, rendered>>

(* getSearchOutput returns; generateSearchOutput renders a non-empty result. *)
GenerateOutput ==
    /\ pc = "search"
    /\ reg > Len(registries)
    /\ rendered' = (Len(paramsArr) # 0)
    /\ pc' = "done"
    /\ UNCHANGED <<nargs, resolve, optsFilter, optsLimit, registries, response,
                   filter, err, reg, queried, paramsArr, emitted>>

Next ==
    \/ Start
    \/ ParseFilter
    \/ RegistryFails
    \/ RegistryAnswers
    \/ GenerateOutput

Spec == Init /\ [][Next]_vars

(***************************************************************************)
(* Properties                                                              *)
(***************************************************************************)
Min(a, b) == IF a < b THEN a ELSE b

(* The registries the loop has gone through. *)
Processed == 1..(reg - 1)

(* The positions of paramsArr holding the records built from registry r. *)
PositionsOf(r) ==
    SelectSeq([k \in 1..Len(emitted) |-> k], LAMBDA k : emitted[k].reg = r)

RecordsOf(r) ==
    LET ps == PositionsOf(r) IN [k \in 1..Len(ps) |-> paramsArr[ps[k]]]

(* What getSearchOutput returns for registry r searched on its own. *)
Alone(r) ==
    LET host    == registries[r]
        results == Results(r)
        kept    == ResultLoop(optsFilter, filter[1], results,
                              ResultLimit(optsLimit, Len(results)), 1)
    IN  [k \in 1..Len(kept) |-> Project(host, IndexOf(host), results[kept[k]])]

SearchReturned == pc = "done" /\ filter # <<>>

(* C1: getSearchOutput returns no error whichever queries fail, a failed   *)
(* registry contributes no record, and every other registry contributes    *)
(* exactly the records it contributes when searched on its own.            *)
FailureIsolated ==
    /\ SearchReturned => err = ""
    /\ \A r \in Processed :
          RecordsOf(r) = IF response[r].ok THEN Alone(r) ELSE <<>>

FailureIsolatedWitness ==
    /\ SearchReturned
    /\ Len(registries) = 2
    /\ ~response[1].ok
    /\ response[2].ok
    /\ paramsArr # <<>>
    /\ paramsArr = Alone(2)

(* C2: the records are the projections of the accepted raw results, one    *)
(* registry after the other in the order of the registry list and, within  *)
(* a registry, in the order of its raw results.                            *)
RegistryThenResultOrder ==
    /\ Len(paramsArr) = Len(emitted)
    /\ \A k \in 1..Len(emitted) :
          LET host == registries[emitted[k].reg] IN
          paramsArr[k] = Project(host, IndexOf(host),
                                 Results(emitted[k].reg)[emitted[k].i])
    /\ \A j \in 1..(Len(emitted) - 1) :
          \/ emitted[j].reg < emitted[j + 1].reg
          \/ /\ emitted[j].reg = emitted[j + 1].reg
             /\ emitted[j].i < emitted[j + 1].i

RegistryThenResultOrderWitness ==
    /\ SearchReturned
    /\ \E j, k \in 1..Len(emitted) :
          /\ j + 1 < k
          /\ emitted[j].reg = 1
          /\ emitted[j + 1].reg = 1
          /\ emitted[k].reg = 2
          /\ emitted[k - 1].reg = 2

(* C3: with a caller limit L > 0, no filters and k registries that each    *)
(* answer more than L raw results, the search returns k*L records, L from  *)
(* each registry.                                                          *)
LimitIsPerRegistry ==
    ( /\ SearchReturned
      /\ optsLimit > 0
      /\ optsFilter = <<>>
      /\ \A r \in 1..Len(registries) :
            response[r].ok /\ response[r].n > optsLimit )
    => /\ Len(paramsArr) = Len(registries) * optsLimit
       /\ \A r \in 1..Len(registries) : Len(RecordsOf(r)) = optsLimit

LimitIsPerRegistryWitness ==
    /\ SearchReturned
    /\ optsLimit = 3
    /\ optsFilter = <<>>
    /\ Len(registries) = 2
    /\ \A r \in 1..2 : response[r].ok /\ response[r].n > maxQueries
    /\ Len(paramsArr) = 6

(* The key of a filter expression: the text before its first "=". *)
KeyOf(e) ==
    IF Contains(e, "=")
    THEN SubSeq(e, 1, (CHOOSE p \in 1..Len(e) :
                          e[p] = "=" /\ \A j \in 1..(p - 1) : e[j] # "=") - 1)
    ELSE e

(* The text after the first "=" of an expression that has one. *)
AfterFirstEq(e) ==
    SubSeq(e, (CHOOSE p \in 1..Len(e) :
                  e[p] = "=" /\ \A j \in 1..(p - 1) : e[j] # "=") + 1, Len(e))

UnrecognizedKey(e) ==
    KeyOf(e) \notin {<<"stars">>, <<"is-official">>, <<"is-automated">>}

StarsDoesNotConvert(e) ==
    /\ KeyOf(e) = <<"stars">>
    /\ \/ Len(Split(e, "=")) < 2
       \/ ~Atoi(Split(e, "=")[2]).ok

StarsValueIsNonNegativeInteger ==
    filter # <<>> =>
       \A k \in 1..Len(optsFilter) :
          KeyOf(optsFilter[k]) = <<"stars">> =>
             /\ Contains(optsFilter[k], "=")
             /\ Atoi(AfterFirstEq(optsFilter[k])).ok
             /\ Atoi(AfterFirstEq(optsFilter[k])).val >= 0

(* The three sub-predicates of the filter, read off the parsed FilterSet. *)
StarsHold(res)     == res.StarCount >= filter[1].stars
OfficialHolds(res) == filter[1].isOfficial = {} \/ res.IsOfficial \in filter[1].isOfficial
AutomatedHolds(res) ==
    filter[1].isAutomated = {} \/ res.IsAutomated \in filter[1].isAutomated

Accepted(r, i) == \E k \in 1..Len(emitted) : emitted[k] = [reg |-> r, i |-> i]

(* C6: a raw result within the result cap of its registry is accepted      *)
(* exactly when its star count is at least the stars threshold and its     *)
(* official and automated flags equal the filters that are set; with no    *)
(* filters every result within the cap is accepted.                        *)
AcceptedIffAllThreeHold ==
    \A r \in Processed :
       response[r].ok =>
          \A i \in 1..ResultLimit(optsLimit, response[r].n) :
             /\ Accepted(r, i) <=> /\ StarsHold(Results(r)[i])
                                   /\ OfficialHolds(Results(r)[i])
                                   /\ AutomatedHolds(Results(r)[i])
             /\ optsFilter = <<>> => Accepted(r, i)

AcceptedIffAllThreeHoldWitness ==
    /\ SearchReturned
    /\ optsFilter = << <<"stars", "=", "5">> >>
    /\ Len(registries) = 1
    /\ \E i \in 1..response[1].n :
          Results(1)[i].StarCount = 5 /\ Accepted(1, i)
    /\ \E i \in 1..ResultLimit(optsLimit, response[1].n) :
          Results(1)[i].StarCount = 4 /\ ~Accepted(1, i)

(* The flag the last expression with the given key asks for, {} if none. *)
LastFlag(key) ==
    LET ks == {k \in 1..Len(optsFilter) : KeyOf(optsFilter[k]) = key} IN
    IF ks = {} THEN {}
    ELSE LET e == optsFilter[CHOOSE k \in ks : \A j \in ks : j <= k] IN
         IF Contains(e, "=") /\ AfterFirstEq(e) = <<"false">>
         THEN {FALSE} ELSE {TRUE}

(* C7: is-official and is-automated with no value or a value other than    *)
(* false ask for the flag true, with the value false for the flag false,   *)
(* the last occurrence of a key decides, and the search returns only       *)
(* records whose flag is the one asked for.                                *)
FlagFiltersLastWins ==
    filter # <<>> =>
       /\ filter[1].isOfficial = LastFlag(<<"is-official">>)
       /\ filter[1].isAutomated = LastFlag(<<"is-automated">>)
       /\ \A k \in 1..Len(paramsArr) :
             /\ LastFlag(<<"is-official">>) # {} =>
                   (paramsArr[k].Official = "[OK]") \in LastFlag(<<"is-official">>)
             /\ LastFlag(<<"is-automated">>) # {} =>
                   (paramsArr[k].Automated = "[OK]") \in LastFlag(<<"is-automated">>)

FlagFiltersLastWinsWitness ==
    /\ SearchReturned
    /\ optsFilter = << <<"is-official", "=", "false">>, <<"is-official", "=">> >>
    /\ Len(registries) = 1
    /\ paramsArr # <<>>
    /\ \A k \in 1..Len(paramsArr) : paramsArr[k].Official = "[OK]"
    /\ \E i \in 1..ResultLimit(optsLimit, response[1].n) : ~Accepted(1, i)

DotCount(s) == Cardinality({k \in 1..Len(s) : s[k] = "."})

(* The last two dot-separated labels of a host with more than two labels:  *)
(* what follows the dot after which exactly one dot remains.               *)
ExpectedIndex(host) ==
    IF DotCount(host) >= 2
    THEN LET p == CHOOSE k \in 1..Len(host) :
                     /\ host[k] = "."
                     /\ DotCount(SubSeq(host, k + 1, Len(host))) = 1
         IN  SubSeq(host, p + 1, Len(host))
    ELSE host

(* C8: the index label is the last two labels of a host with more than two *)
(* labels and the host otherwise; the qualified name is host/name, except  *)
(* docker.io/library/name for index docker.io and a name without "/".      *)
IndexAndQualifiedName ==
    \A k \in 1..Len(paramsArr) :
       LET host == registries[emitted[k].reg]
           name == Results(emitted[k].reg)[emitted[k].i].Name
       IN  /\ paramsArr[k].Index = ExpectedIndex(host)
           /\ paramsArr[k].Name =
                 IF paramsArr[k].Index = <<"docker", ".", "io">>
                    /\ \A j \in 1..Len(name) : name[j] # "/"
                 THEN paramsArr[k].Index \o <<"/", "library", "/">> \o name
                 ELSE host \o <<"/">> \o name

IndexAndQualifiedNameWitness ==
    /\ SearchReturned
    /\ registries = <<Hosts[3], Hosts[2]>>
    /\ \E k \in 1..Len(paramsArr) :
          /\ paramsArr[k].Index = <<"docker", ".", "io">>
          /\ paramsArr[k].Name = <<"docker", ".", "io", "/", "library", "/", "img", "1">>
    /\ \E k \in 1..Len(paramsArr) :
          paramsArr[k].Name =
             <<"registry", ".", "docker", ".", "io", "/", "ns", "/", "img", "3">>
    /\ \E k \in 1..Len(paramsArr) :
          /\ paramsArr[k].Index = <<"fedoraproject", ".", "org">>
          /\ paramsArr[k].Name =
                <<"registry", ".", "fedoraproject", ".", "org", "/", "img", "1">>

(* C9 as stated: the records of a registry come from its first             *)
(* min(25, number of raw results) raw results and are never more.          *)
RecordsWithinDefaultCap ==
    \A r \in Processed :
       /\ Len(RecordsOf(r)) <= Min(maxQueries, response[r].n)
       /\ \A k \in 1..Len(emitted) :
             emitted[k].reg = r => emitted[k].i <= Min(maxQueries, response[r].n)

(* The result cap: the caller limit when it is set and strictly smaller    *)
(* than the number of raw results, min(25, number of raw results) if not.  *)
EffectiveCap(r) ==
    IF optsLimit # 0 /\ optsLimit < response[r].n
    THEN optsLimit
    ELSE Min(maxQueries, response[r].n)

(* C9 amended: the records of a registry come from its first EffectiveCap  *)
(* raw results and are never more than that; the cap never exceeds the     *)
(* number of raw results, and exceeds 25 only when the caller limit does.  *)
RecordsWithinEffectiveCap ==
    \A r \in Processed :
       /\ Len(RecordsOf(r)) <= IF EffectiveCap(r) < 0 THEN 0 ELSE EffectiveCap(r)
       /\ \A k \in 1..Len(emitted) :
             emitted[k].reg = r => emitted[k].i <= EffectiveCap(r)
       /\ EffectiveCap(r) <= response[r].n
       /\ EffectiveCap(r) > maxQueries => optsLimit > maxQueries
       /\ (response[r].ok /\ optsFilter = <<>> /\ EffectiveCap(r) >= 0)
             => Len(RecordsOf(r)) = EffectiveCap(r)

RecordsWithinEffectiveCapWitness ==
    /\ SearchReturned
    /\ optsLimit > maxQueries
    /\ Len(registries) >= 1
    /\ response[1].ok
    /\ response[1].n > optsLimit
    /\ Len(RecordsOf(1)) = optsLimit

(* C10: every call to the registry client gets the same query limit: the   *)
(* caller limit when it is strictly positive, 25 otherwise.                *)
QueryLimitIsPositive ==
    \A k \in 1..Len(queried) :
       queried[k].limit = IF optsLimit > 0 THEN optsLimit ELSE maxQueries

====
